---- MODULE Spec2Model ----
(***************************************************************************)
(* The run supervisor of advanced_dashboard/server.py (FastAPI variant).   *)
(*                                                                         *)
(* Scheduling.  Every route is an `async def` and run_benchmark_process is *)
(* an `async def` handed to BackgroundTasks, so all of them run on the one *)
(* asyncio event loop of the service.  A coroutine gives the loop away     *)
(* only at an `await`; none of the handlers modelled here contains one,    *)
(* and neither does run_benchmark_process (Popen.communicate and           *)
(* Popen.wait are blocking calls).  Hence                                  *)
(*   - a route handler is one atomic step;                                 *)
(*   - once a background task has begun it holds the loop until its        *)
(*     finally block has run: no handler and no other background task      *)
(*     runs in between (LoopBusy), while the child process and the         *)
(*     clients, which are other processes, go on;                          *)
(*   - a background task begins after its response has been sent, which    *)
(*     awaits the ASGI send: between run_benchmark returning and the       *)
(*     task's first statement other requests may be served.                *)
(***************************************************************************)
EXTENDS Integers, Sequences, FiniteSets, TLC

\* ------------------------------------------------------------- bounds
MaxRuns == 2          \* accepted runs explored
ServiceDepth == 2     \* depth of the service's own directory below /

Runs == 1..MaxRuns
None == 0             \* Python's None for current_benchmark_process

ExitCodes == {0, 1, 2}
SpawnErrors == {"FileNotFoundError", "PermissionError"}

VARIABLES
  benchmark_status,           \* {"running": bool, "message": str}
  current_benchmark_process,  \* None or the run whose Popen handle it is
  cwd,                        \* os.getcwd() of the service, as a depth
  pc,                         \* per run: where its background task stands
  original_cwd,               \* per run: the local original_cwd
  exc,                        \* per run: the exception caught, or "none"
  child,                      \* per run: the spawned OS process
  finished,                   \* runs in the order their finally block ran
  startReply,                 \* answer of the last run_benchmark request
  stopReq,                    \* the stop request in flight and its answer
  statusReply                 \* answer of the last get_status request

\* The query side: the benchmarks directory and the query being answered.
VARIABLES
  directory,                  \* the files of BENCHMARK_DIR, in listing order
  loadpc,                     \* load_benchmark_files: "none", "loop", "loaded"
  all_files,                  \* load_benchmark_files: files still to read
  benchmark_files,            \* load_benchmark_files: records loaded so far
  response,                   \* answer of the last query
  scan_dir                    \* where the last scan looked for BENCHMARK_DIR

\* The pure functions, each applied to an input: build_benchmark_command
\* and calculate_aggregate_metrics.
VARIABLES
  config,                     \* a BenchmarkConfig
  cmd,                        \* build_benchmark_command(config), once built
  agg_benchmarks,             \* a list handed to calculate_aggregate_metrics
  metrics                     \* what it returned or raised, once called

\* The Flask variant, ayushdash/app.py: its /run-benchmark requests.
VARIABLES
  fpc,                        \* per request: where run_benchmark stands
  fparams,                    \* per request: num_clients and num_rounds
  fchild,                     \* per request: the process it spawned
  freply                      \* per request: what it returned

vars_supervisor ==
  <<benchmark_status, current_benchmark_process, cwd, pc, original_cwd,
    exc, child, finished, startReply, stopReq, statusReply>>

scanVars ==
  <<directory, loadpc, all_files, benchmark_files, response, scan_dir>>

functionVars == <<config, cmd, agg_benchmarks, metrics>>

flaskVars == <<fpc, fparams, fchild, freply>>

otherVars == <<functionVars, flaskVars>>

vars == <<benchmark_status, current_benchmark_process, cwd, pc, original_cwd,
          exc, child, finished, startReply, stopReq, statusReply,
          directory, loadpc, all_files, benchmark_files, response, scan_dir,
          config, cmd, agg_benchmarks, metrics, fpc, fparams, fchild, freply>>

\* ------------------------------------------------------------- helpers
\* Path("..") resolved against directory d (the parent of / is /).
WORKSPACE_DIR(d) == IF d = 0 THEN 0 ELSE d - 1

NoChild == [state |-> "unborn", returncode |-> 0, cwd |-> 0,
            sigterm |-> FALSE, sigkill |-> FALSE]

NoStop == [state |-> "none", issuedRunning |-> FALSE, target |-> None,
           reply |-> "none"]

NoStatus == [state |-> "none", running |-> FALSE, message |-> <<"">>,
             inflight |-> FALSE]

\* A background task that has begun and not yet left its finally block.
InTask == {"init", "chdir", "spawned", "wait", "except", "finally"}

\* The event loop always free: handlers and tasks run side by side.
LoopNeverBusy == FALSE

\* The event loop is taken: by a background task that has begun, or by a
\* query handler that is scanning.
LoopBusy == (\E r \in Runs : pc[r] \in InTask) \/ loadpc # "none"

\* Accepted by run_benchmark and not yet through its finally block.
InFlight == {r \in Runs : pc[r] \in InTask \cup {"queued"}}

IsNextRun(r) == pc[r] = "none" /\ \A q \in Runs : q < r => pc[q] # "none"

MaxRequests == 2      \* /run-benchmark requests to the Flask variant

Requests == 1..MaxRequests

\* No process yet for a Flask request.
NoProcess == [state |-> "unborn", returncode |-> 0]

\* Nothing built and nothing aggregated.
FunctionsIdle ==
  /\ config = [scenario |-> "custom", numClients |-> 1, numRounds |-> 1,
               clientDelay |-> 0, maxConcurrent |-> 1, serverUrl |-> "<None>"]
  /\ cmd = <<>>
  /\ agg_benchmarks = <<>>
  /\ metrics = [called |-> FALSE]

\* No request to the Flask variant yet.
FlaskIdle ==
  /\ fpc = [q \in Requests |-> "none"]
  /\ fparams = [q \in Requests |-> [num_clients |-> 1, num_rounds |-> 1]]
  /\ fchild = [q \in Requests |-> NoProcess]
  /\ freply = [q \in Requests |-> "none"]

Init ==
  /\ benchmark_status = [running |-> FALSE, message |-> <<"">>]
  /\ current_benchmark_process = None
  /\ cwd = ServiceDepth
  /\ pc = [r \in Runs |-> "none"]
  /\ original_cwd = [r \in Runs |-> 0]
  /\ exc = [r \in Runs |-> "none"]
  /\ child = [r \in Runs |-> NoChild]
  /\ finished = <<>>
  /\ startReply = "none"
  /\ stopReq = NoStop
  /\ statusReply = NoStatus
  /\ directory = <<>>
  /\ loadpc = "none"
  /\ all_files = <<>>
  /\ benchmark_files = <<>>
  /\ response = [status |-> 0]
  /\ scan_dir = -1
  /\ FunctionsIdle
  /\ FlaskIdle

\* ------------------------------------------------- status messages
\* ExitMessage with the return code ignored.
ExitMessageAlwaysSuccess(return_code) ==
  <<"Benchmark completed successfully">>

\* ErrorMessage with str(e) left out.
ErrorMessageNoDetail(e) == <<"Benchmark error: ", "">>

\* benchmark_status["message"] after communicate() returned return_code.
ExitMessage(return_code) ==
  IF return_code = 0
    THEN <<"Benchmark completed successfully">>
    ELSE <<"Benchmark failed with code ", ToString(return_code)>>

\* benchmark_status["message"] set by the except clause, str(e) embedded.
ErrorMessage(e) == <<"Benchmark error: ", e>>

\* ------------------------------------------- POST /api/run-benchmark
\* The guard of run_benchmark: the request is refused when this holds.
AlreadyRunning(status) == status.running

\* run_benchmark: refuse, or hand run_benchmark_process to BackgroundTasks
\* and answer at once.  The task itself starts later (BgBegin).
run_benchmark ==
  /\ ~LoopBusy
  /\ \E r \in Runs : IsNextRun(r)
  /\ IF AlreadyRunning(benchmark_status)
       THEN /\ startReply' = "Benchmark already running"
            /\ pc' = pc
       ELSE /\ startReply' = "Benchmark started"
            /\ pc' = [r \in Runs |-> IF IsNextRun(r) THEN "queued" ELSE pc[r]]
  /\ UNCHANGED <<benchmark_status, current_benchmark_process, cwd,
                 original_cwd, exc, child, finished, stopReq, statusReply>>
  /\ UNCHANGED <<scanVars, otherVars>>

\* ------------------------------------------- run_benchmark_process
\* BgBegin for a task that does not have to wait for the event loop.
BgBeginLoopShared(r) ==
  /\ pc[r] = "queued"
  /\ original_cwd' = [original_cwd EXCEPT ![r] = cwd]
  /\ benchmark_status' = [running |-> TRUE,
                          message |-> <<"Initializing benchmark...">>]
  /\ pc' = [pc EXCEPT ![r] = "init"]
  /\ UNCHANGED <<current_benchmark_process, cwd, exc, child, finished,
                 startReply, stopReq, statusReply>>
  /\ UNCHANGED <<scanVars, otherVars>>

\* original_cwd = os.getcwd(); running = True; message = "Initializing...".
\* The task takes the event loop here and keeps it up to BgFinally.
BgBegin(r) ==
  /\ ~LoopBusy
  /\ pc[r] = "queued"
  /\ original_cwd' = [original_cwd EXCEPT ![r] = cwd]
  /\ benchmark_status' = [running |-> TRUE,
                          message |-> <<"Initializing benchmark...">>]
  /\ pc' = [pc EXCEPT ![r] = "init"]
  /\ UNCHANGED <<current_benchmark_process, cwd, exc, child, finished,
                 startReply, stopReq, statusReply>>
  /\ UNCHANGED <<scanVars, otherVars>>

\* os.chdir(WORKSPACE_DIR)
BgChdir(r) ==
  /\ pc[r] = "init"
  /\ cwd' = WORKSPACE_DIR(cwd)
  /\ pc' = [pc EXCEPT ![r] = "chdir"]
  /\ UNCHANGED <<benchmark_status, current_benchmark_process, original_cwd,
                 exc, child, finished, startReply, stopReq, statusReply>>
  /\ UNCHANGED <<scanVars, otherVars>>

\* current_benchmark_process = subprocess.Popen(cmd, ..., cwd=WORKSPACE_DIR):
\* the child starts in WORKSPACE_DIR resolved against the service's current
\* directory, or Popen raises and the handle is never assigned.
BgSpawn(r) ==
  /\ pc[r] = "chdir"
  /\ \/ /\ child' = [child EXCEPT ![r] = [NoChild EXCEPT !.state = "alive",
                                          !.cwd = WORKSPACE_DIR(cwd)]]
        /\ current_benchmark_process' = r
        /\ pc' = [pc EXCEPT ![r] = "spawned"]
        /\ exc' = exc
     \/ /\ \E e \in SpawnErrors : exc' = [exc EXCEPT ![r] = e]
        /\ pc' = [pc EXCEPT ![r] = "except"]
        /\ UNCHANGED <<child, current_benchmark_process>>
  /\ UNCHANGED <<benchmark_status, cwd, original_cwd, finished, startReply,
                 stopReq, statusReply>>
  /\ UNCHANGED <<scanVars, otherVars>>

\* benchmark_status["message"] = "Benchmark running..."
BgRunningMsg(r) ==
  /\ pc[r] = "spawned"
  /\ benchmark_status' = [benchmark_status EXCEPT
                            !.message = <<"Benchmark running...">>]
  /\ pc' = [pc EXCEPT ![r] = "wait"]
  /\ UNCHANGED <<current_benchmark_process, cwd, original_cwd, exc, child,
                 finished, startReply, stopReq, statusReply>>
  /\ UNCHANGED <<scanVars, otherVars>>

\* The benchmark process ends by itself with some exit code.
ChildExit(r) ==
  /\ child[r].state = "alive"
  /\ \E code \in ExitCodes :
       child' = [child EXCEPT ![r].state = "exited", ![r].returncode = code]
  /\ UNCHANGED <<benchmark_status, current_benchmark_process, cwd, pc,
                 original_cwd, exc, finished, startReply, stopReq,
                 statusReply>>
  /\ UNCHANGED <<scanVars, otherVars>>

\* current_benchmark_process.communicate() returns once that process has
\* exited; the message is set from its returncode.  The handle is read from
\* the global: were it None, the attribute access would raise.
BgCommunicate(r) ==
  /\ pc[r] = "wait"
  /\ IF current_benchmark_process = None
       THEN /\ exc' = [exc EXCEPT ![r] = "AttributeError"]
            /\ pc' = [pc EXCEPT ![r] = "except"]
            /\ UNCHANGED benchmark_status
       ELSE /\ child[current_benchmark_process].state = "exited"
            /\ benchmark_status' = [benchmark_status EXCEPT !.message =
                 ExitMessage(child[current_benchmark_process].returncode)]
            /\ pc' = [pc EXCEPT ![r] = "finally"]
            /\ exc' = exc
  /\ UNCHANGED <<current_benchmark_process, cwd, original_cwd, child,
                 finished, startReply, stopReq, statusReply>>
  /\ UNCHANGED <<scanVars, otherVars>>

\* except Exception as e: message = f"Benchmark error: {str(e)}"
BgExcept(r) ==
  /\ pc[r] = "except"
  /\ benchmark_status' = [benchmark_status EXCEPT
                            !.message = ErrorMessage(exc[r])]
  /\ pc' = [pc EXCEPT ![r] = "finally"]
  /\ UNCHANGED <<current_benchmark_process, cwd, original_cwd, exc, child,
                 finished, startReply, stopReq, statusReply>>
  /\ UNCHANGED <<scanVars, otherVars>>

\* BgFinally without `current_benchmark_process = None`.
BgFinallyKeepsHandle(r) ==
  /\ pc[r] = "finally"
  /\ benchmark_status' = [benchmark_status EXCEPT !.running = FALSE]
  /\ cwd' = original_cwd[r]
  /\ pc' = [pc EXCEPT ![r] = "done"]
  /\ finished' = Append(finished, r)
  /\ UNCHANGED <<current_benchmark_process, original_cwd, exc, child,
                 startReply, stopReq, statusReply>>
  /\ UNCHANGED <<scanVars, otherVars>>

\* BgFinally without `benchmark_status["running"] = False`.
BgFinallyLeavesRunning(r) ==
  /\ pc[r] = "finally"
  /\ current_benchmark_process' = None
  /\ cwd' = original_cwd[r]
  /\ pc' = [pc EXCEPT ![r] = "done"]
  /\ finished' = Append(finished, r)
  /\ UNCHANGED <<benchmark_status, original_cwd, exc, child, startReply,
                 stopReq, statusReply>>
  /\ UNCHANGED <<scanVars, otherVars>>

\* BgFinally without `os.chdir(original_cwd)`.
BgFinallyNoRestore(r) ==
  /\ pc[r] = "finally"
  /\ benchmark_status' = [benchmark_status EXCEPT !.running = FALSE]
  /\ current_benchmark_process' = None
  /\ pc' = [pc EXCEPT ![r] = "done"]
  /\ finished' = Append(finished, r)
  /\ UNCHANGED <<cwd, original_cwd, exc, child, startReply, stopReq,
                 statusReply>>
  /\ UNCHANGED <<scanVars, otherVars>>

\* finally: running = False; current_benchmark_process = None;
\* os.chdir(original_cwd).  The task returns and frees the event loop.
BgFinally(r) ==
  /\ pc[r] = "finally"
  /\ benchmark_status' = [benchmark_status EXCEPT !.running = FALSE]
  /\ current_benchmark_process' = None
  /\ cwd' = original_cwd[r]
  /\ pc' = [pc EXCEPT ![r] = "done"]
  /\ finished' = Append(finished, r)
  /\ UNCHANGED <<original_cwd, exc, child, startReply, stopReq, statusReply>>
  /\ UNCHANGED <<scanVars, otherVars>>

\* ------------------------------------------ POST /api/stop-benchmark
\* A client sends a stop request.  Clients are other processes: a request
\* can be sent at any time and waits in the socket until the loop is free.
\* Recorded with it: what the supervisor's state was when it was sent.
IssueStop ==
  /\ stopReq.state # "pending"
  /\ stopReq' = [state |-> "pending",
                 issuedRunning |-> benchmark_status.running,
                 target |-> IF /\ current_benchmark_process # None
                               /\ child[current_benchmark_process].state = "alive"
                            THEN current_benchmark_process ELSE None,
                 reply |-> "none"]
  /\ UNCHANGED <<benchmark_status, current_benchmark_process, cwd, pc,
                 original_cwd, exc, child, finished, startReply, statusReply>>
  /\ UNCHANGED <<scanVars, otherVars>>

\* NoBenchmarkRunning with both tests inverted.
NoBenchmarkRunningInverted(status, process) ==
  status.running /\ process # None

\* The guard of stop_benchmark: the request is refused when this holds.
NoBenchmarkRunning(status, process) == ~status.running \/ process = None

\* stop_benchmark: refuse, or terminate() the owned process, wait(timeout=10)
\* for it and, on TimeoutExpired, kill() it.  Both calls block; the handler
\* is one step.  inGrace: the process exits within the 10 seconds.
stop_benchmark ==
  /\ ~LoopBusy
  /\ stopReq.state = "pending"
  /\ IF NoBenchmarkRunning(benchmark_status, current_benchmark_process)
       THEN /\ stopReq' = [stopReq EXCEPT !.state = "answered",
                                          !.reply = "No benchmark running"]
            /\ UNCHANGED <<benchmark_status, child>>
       ELSE IF current_benchmark_process = None
       THEN \* None.terminate() raises: except Exception, status 500
            /\ stopReq' = [stopReq EXCEPT !.state = "answered",
                                          !.reply = "Failed to stop benchmark"]
            /\ UNCHANGED <<benchmark_status, child>>
       ELSE LET p == current_benchmark_process IN
            \E inGrace \in BOOLEAN :
              IF child[p].state = "exited"
                THEN \* terminate() is a no-op, wait() returns at once
                     /\ inGrace
                     /\ child' = child
                     /\ benchmark_status' =
                          [running |-> FALSE,
                           message |-> <<"Benchmark stopped by user">>]
                     /\ stopReq' = [stopReq EXCEPT !.state = "answered",
                                                   !.reply = "Benchmark stopped"]
                ELSE IF inGrace
                THEN /\ child' = [child EXCEPT ![p].state = "exited",
                                               ![p].sigterm = TRUE,
                                               ![p].returncode = 0 - 15]
                     /\ benchmark_status' =
                          [running |-> FALSE,
                           message |-> <<"Benchmark stopped by user">>]
                     /\ stopReq' = [stopReq EXCEPT !.state = "answered",
                                                   !.reply = "Benchmark stopped"]
                ELSE /\ child' = [child EXCEPT ![p].state = "exited",
                                               ![p].sigterm = TRUE,
                                               ![p].sigkill = TRUE,
                                               ![p].returncode = 0 - 9]
                     /\ benchmark_status' =
                          [running |-> FALSE,
                           message |-> <<"Benchmark forcefully terminated">>]
                     /\ stopReq' = [stopReq EXCEPT !.state = "answered",
                                      !.reply = "Benchmark forcefully terminated"]
  /\ UNCHANGED <<current_benchmark_process, cwd, pc, original_cwd, exc,
                 finished, startReply, statusReply>>
  /\ UNCHANGED <<scanVars, otherVars>>

\* ------------------------------------------------- GET /api/status
\* get_status returns benchmark_status.  Recorded with the answer: whether
\* an accepted run was still short of its terminal transition.
get_status ==
  /\ ~LoopBusy
  /\ statusReply' = [state |-> "answered",
                     running |-> benchmark_status.running,
                     message |-> benchmark_status.message,
                     inflight |-> InFlight # {}]
  /\ UNCHANGED <<benchmark_status, current_benchmark_process, cwd, pc,
                 original_cwd, exc, child, finished, startReply, stopReq>>
  /\ UNCHANGED <<scanVars, otherVars>>

\* ------------------------------------------------------ specification
Next ==
  \/ run_benchmark
  \/ IssueStop
  \/ stop_benchmark
  \/ get_status
  \/ \E r \in Runs :
       \/ BgBegin(r)
       \/ BgChdir(r)
       \/ BgSpawn(r)
       \/ BgRunningMsg(r)
       \/ ChildExit(r)
       \/ BgCommunicate(r)
       \/ BgExcept(r)
       \/ BgFinally(r)

Spec == Init /\ [][Next]_vars

\* Scheduling: the event loop runs every task that is ready, so a queued
\* background task is begun and each of its steps is taken; the blocking
\* communicate() returns once the child has exited, and the child exits.
FairSpec ==
  /\ Spec
  /\ \A r \in Runs :
       /\ WF_vars(BgBegin(r))
       /\ WF_vars(BgChdir(r))
       /\ WF_vars(BgSpawn(r))
       /\ WF_vars(BgRunningMsg(r))
       /\ WF_vars(ChildExit(r))
       /\ WF_vars(BgCommunicate(r))
       /\ WF_vars(BgExcept(r))
       /\ WF_vars(BgFinally(r))

\* ============================================================ claims
Last(seq) == seq[Len(seq)]

Alive == {r \in Runs : child[r].state = "alive"}

Idle == ~LoopBusy /\ InFlight = {}

StopAccepted == {"Benchmark stopped", "Benchmark forcefully terminated"}

\* C1: single-flight start: of the start requests accepted without a
\* terminal transition in between there is at most one, so never more than
\* one accepted run is short of its terminal transition and never more than
\* one child process is alive.
C1_SingleFlightStart ==
  /\ Cardinality(InFlight) <= 1
  /\ Cardinality(Alive) <= 1

\* C2: a status answered after a run was accepted and before that run's
\* terminal transition reports running = true.
C2_AcceptedReadsRunning ==
  (statusReply.state = "answered" /\ statusReply.inflight)
    => statusReply.running

\* C3: at most one child process is alive and it is the one the handle
\* refers to; whenever the status reads running = false no handle is owned.
C3_IdleOwnsNoHandle ==
  /\ Cardinality(Alive) <= 1
  /\ \A r \in Alive : current_benchmark_process = r
  /\ ~benchmark_status.running => current_benchmark_process = None

\* C3 witness: a run owned a process, it finished, a stop() has returned,
\* and the supervisor is idle with no handle.
C3_Witness ==
  /\ finished # <<>>
  /\ child[Last(finished)].state = "exited"
  /\ stopReq.state = "answered"
  /\ ~benchmark_status.running
  /\ current_benchmark_process = None

C6_OutcomeByExitCode ==
  \A r \in Runs :
    LET code == child[r].returncode
        told == IF code = 0
                  THEN <<"Benchmark completed successfully">>
                  ELSE <<"Benchmark failed with code ", ToString(code)>>
    IN  /\ (pc[r] = "finally" /\ exc[r] = "none")
             => benchmark_status = [running |-> TRUE, message |-> told]
        /\ (~LoopBusy /\ finished # <<>> /\ Last(finished) = r
              /\ exc[r] = "none")
             => /\ benchmark_status = [running |-> FALSE, message |-> told]
                /\ current_benchmark_process = None

\* C6 witness: one run ended with code 0, the last one with code 2.
C6_Witness ==
  /\ Len(finished) = 2
  /\ ~LoopBusy
  /\ child[finished[1]].state = "exited" /\ child[finished[1]].returncode = 0
  /\ child[finished[2]].state = "exited" /\ child[finished[2]].returncode = 2
  /\ benchmark_status.message = <<"Benchmark failed with code ", "2">>

\* C7: a stop() handled while the supervisor is idle is answered 'No
\* benchmark running' and leaves the running flag, the message and the
\* handle as they were.
C7_StopWhileIdle ==
  [][(stopReq.state = "pending" /\ stopReq'.state = "answered"
        /\ ~benchmark_status.running)
       => /\ stopReq'.reply = "No benchmark running"
          /\ UNCHANGED <<benchmark_status, current_benchmark_process>>]_vars

\* C7 witness: after a finished run a stop() was refused and the message of
\* that run is still there.
C7_Witness ==
  /\ stopReq.state = "answered"
  /\ stopReq.reply = "No benchmark running"
  /\ ~stopReq.issuedRunning
  /\ Idle
  /\ benchmark_status.message = <<"Benchmark completed successfully">>

\* C8: a stop() sent in a state where the status reads running = true is
\* not refused with 'No benchmark running'.
C8_StopAcceptedWhileRunning ==
  (stopReq.state = "answered" /\ stopReq.issuedRunning)
    => stopReq.reply # "No benchmark running"

\* C9: when Popen raises, no process exists for that run (no retry), and
\* once its task is through the supervisor is idle - running false, no
\* handle - with the error in the message, so that a start is accepted.
C9_SpawnFailure ==
  \A r \in Runs :
    exc[r] \in SpawnErrors
      => /\ child[r].state = "unborn"
         /\ (~LoopBusy /\ finished # <<>> /\ Last(finished) = r)
              => /\ benchmark_status =
                      [running |-> FALSE,
                       message |-> <<"Benchmark error: ", exc[r]>>]
                 /\ current_benchmark_process = None

\* C9 witness: the first run failed to spawn and a later start was accepted
\* and got its process.
C9_Witness ==
  /\ Len(finished) >= 1
  /\ exc[finished[1]] = "PermissionError"
  /\ \E q \in Runs : q # finished[1] /\ child[q].state = "alive"

\* C10: whenever no background task is running the working directory is
\* the service's own, and it is the one the last finished run started from.
C10_CwdRestored ==
  ~LoopBusy
    => /\ cwd = ServiceDepth
       /\ finished # <<>> => cwd = original_cwd[Last(finished)]

\* C10 witness: a run that failed to spawn and a run that exited nonzero
\* are both through, and the directory is the original one.
C10_Witness ==
  /\ Len(finished) = 2
  /\ ~LoopBusy
  /\ exc[finished[1]] \in SpawnErrors
  /\ child[finished[2]].state = "exited" /\ child[finished[2]].returncode # 0
  /\ cwd = ServiceDepth

\* C11: under fair scheduling, with the child process exiting, every
\* accepted run is followed by a state where that run is through, running
\* is false and no handle is owned.
C11_EventuallyIdle ==
  \A r \in Runs :
    (pc[r] = "queued")
      ~> (/\ pc[r] = "done"
          /\ ~benchmark_status.running
          /\ current_benchmark_process = None)

\* C11 witness: every accepted run is through, one of them after its child
\* process exited, and the supervisor is idle.
C11_Witness ==
  /\ \A r \in Runs : pc[r] = "done"
  /\ \E r \in Runs : child[r].state = "exited"
  /\ ~benchmark_status.running
  /\ current_benchmark_process = None

\* ================================================== the query side
\* Strings that the code searches or matches are sequences of characters.
\* Numbers with a fraction are counted in units of 1/10000.
MaxFiles == 3         \* files in the benchmarks directory
\* benchmark_multi_client_42.json
N_multi == <<"b","e","n","c","h","m","a","r","k","_","m","u","l","t","i",
    "_","c","l","i","e","n","t","_","4","2",".","j","s","o","n">>
\* benchmark_single_7.json
N_single == <<"b","e","n","c","h","m","a","r","k","_","s","i","n","g","l",
    "e","_","7",".","j","s","o","n">>
\* benchmark_report_99.json
N_report == <<"b","e","n","c","h","m","a","r","k","_","r","e","p","o","r",
    "t","_","9","9",".","j","s","o","n">>
\* benchmark_MULTI_3.json
N_upper == <<"b","e","n","c","h","m","a","r","k","_","M","U","L","T","I",
    "_","3",".","j","s","o","n">>
\* str(BENCHMARK_DIR / "") = ../benchmarks/
BENCHMARK_DIR == <<".",".","/","b","e","n","c","h","m","a","r","k","s",
    "/">>
\* A..Z
UpperCase == <<"A","B","C","D","E","F","G","H","I","J","K","L","M","N","O",
    "P","Q","R","S","T","U","V","W","X","Y","Z">>
\* a..z
LowerCase == <<"a","b","c","d","e","f","g","h","i","j","k","l","m","n","o",
    "p","q","r","s","t","u","v","w","x","y","z">>

\* str.lower()
lower(str) ==
  [i \in 1..Len(str) |->
     IF \E j \in 1..Len(UpperCase) : UpperCase[j] = str[i]
       THEN LowerCase[CHOOSE j \in 1..Len(UpperCase) : UpperCase[j] = str[i]]
       ELSE str[i]]

\* `sub in str` for strings
Contains(str, sub) ==
  \E i \in 1..(Len(str) - Len(sub) + 1) :
    SubSeq(str, i, i + Len(sub) - 1) = sub

\* glob of BENCHMARK_DIR / (prefix + "*" + suffix) against a file name
GlobMatch(name, prefix, suffix) ==
  /\ Len(name) >= Len(prefix) + Len(suffix)
  /\ SubSeq(name, 1, Len(prefix)) = prefix
  /\ SubSeq(name, Len(name) - Len(suffix) + 1, Len(name)) = suffix

\* ---------------------------------------------------- Python dicts
\* A dict is a function on the keys it holds.  JSON null is PyNone.
PyNone == "<None>"

Has(d, k) == k \in DOMAIN d

\* d.get(k, default)
Get(d, k, default) == IF k \in DOMAIN d THEN d[k] ELSE default

\* d[k] = v
Put(d, k, v) == [x \in DOMAIN d \cup {k} |-> IF x = k THEN v ELSE d[x]]

\* `not v` for a string or None
Falsy(v) == v = PyNone \/ v = ""

\* ------------------------------------------- the files on disk
ZkpA == [proof_generation_time_ms |-> 123450,
         proof_verification_time_ms |-> 30050,
         proof_size_bytes |-> 20480000]

ZkpB == [proof_generation_time_ms |-> 100000,
         proof_verification_time_ms |-> 20000,
         proof_size_bytes |-> 10240000]

TrainA == [training_time_ms |-> 1505000, final_loss |-> 123]

TrainB == [training_time_ms |-> 1000000, final_loss |-> 250]

\* a complete record without a scenario
RecA == [session_id |-> "s1", client_id |-> "c1",
         start_time |-> "2024-01-02T10:00:00", total_duration_ms |-> 2000000,
         zkp_metrics |-> ZkpA, training_metrics |-> TrainA]

\* a complete record with a scenario and the session id of RecA
RecB == [session_id |-> "s1", client_id |-> "c2", scenario |-> "custom",
         start_time |-> "2024-01-03T09:30:00", total_duration_ms |-> 1500010,
         zkp_metrics |-> ZkpB, training_metrics |-> TrainB]

\* no session id, an empty scenario, no metrics
RecBare == [client_id |-> "c2", scenario |-> ""]

\* a null scenario, no training_metrics, a start_time that is no timestamp
RecNull == [session_id |-> "s5", scenario |-> PyNone, zkp_metrics |-> ZkpA,
            start_time |-> "n/a"]

\* an entry without its metric subtrees
RecLean == [session_id |-> "s3", client_id |-> "c2"]

Report1 == [benchmark_id |-> "r1", num_clients |-> 2,
            client_results |-> <<[RecB EXCEPT !.session_id = "s2"], RecLean>>]

\* a report without benchmark_id and num_clients
Report0 == [client_results |-> <<RecA>>]

ReportEmpty == [benchmark_id |-> "r2", num_clients |-> 3,
                client_results |-> <<>>]

Invalid == [kind |-> "invalid"]     \* not JSON: json.load raises
Array == [kind |-> "array"]         \* a JSON list at top level
Object(d) == [kind |-> "object", obj |-> d]

MTimes == {1, 2}

\* What may be found under each name.
Contents(name) ==
  IF name = N_multi THEN {Invalid, Object(RecA), Object(Report1)}
  ELSE IF name = N_single
    THEN {Array, Object(RecBare), Object(RecNull), Object(RecLean)}
  ELSE IF name = N_report
    THEN {Object(Report1), Object(Report0), Object(ReportEmpty)}
  ELSE {Object(RecB), Object(RecA)}

Names == {N_multi, N_single, N_report, N_upper}

FileUniverse ==
  UNION {[name : {n}, mtime : MTimes, data : Contents(n)] : n \in Names}

\* A directory: files with distinct names, in the order the OS lists them.
Directories ==
  UNION {{d \in [1..k -> FileUniverse] :
            \A i, j \in 1..k : i # j => d[i].name # d[j].name} :
         k \in 0..MaxFiles}

\* --------------------------------------------- load_benchmark_files
\* sort(key=..., reverse=True): stable, greatest key first.  `keyed` is a
\* sequence of <<key, item>>.
RECURSIVE InsertDesc(_, _)
InsertDesc(sorted, x) ==
  IF sorted = <<>> THEN <<x>>
  ELSE IF Head(sorted)[1] >= x[1]
    THEN <<Head(sorted)>> \o InsertDesc(Tail(sorted), x)
    ELSE <<x>> \o sorted

RECURSIVE SortDesc(_)
SortDesc(keyed) ==
  IF keyed = <<>> THEN <<>>
  ELSE InsertDesc(SortDesc(SubSeq(keyed, 1, Len(keyed) - 1)),
                  keyed[Len(keyed)])

Items(keyed) == [i \in 1..Len(keyed) |-> keyed[i][2]]

PatternBenchmark(f) == GlobMatch(f.name, <<"b","e","n","c","h","m","a","r","k","_">>, <<".","j","s","o","n">>)

PatternReport(f) == GlobMatch(f.name, 
    <<"b","e","n","c","h","m","a","r","k","_","r","e","p","o","r","t","_">>, <<".","j","s","o","n">>)

\* all_files: the matches of the first pattern, then those of the second,
\* sorted by os.path.getmtime, newest first.
SortedFiles(dir) ==
  LET found == SelectSeq(dir, PatternBenchmark) \o SelectSeq(dir, PatternReport)
  IN  Items(SortDesc([i \in 1..Len(found) |-> <<found[i].mtime, found[i]>>]))

\* InferScenario on file_path as it is, without lower().
InferScenarioCaseSensitive(name) ==
  LET path == BENCHMARK_DIR \o name
  IN  IF Contains(path, <<"m","u","l","t","i">>) THEN "multi-client"
      ELSE IF Contains(path, <<"s","i","n","g","l","e">>) THEN "single-client"
      ELSE "unknown"

\* The scenario inferred from file_path.lower().
InferScenario(name) ==
  LET path == lower(BENCHMARK_DIR \o name)
  IN  IF Contains(path, <<"m","u","l","t","i">>) THEN "multi-client"
      ELSE IF Contains(path, <<"s","i","n","g","l","e">>) THEN "single-client"
      ELSE "unknown"

\* filename and file_mtime, and the scenario when the dict has none.
WithMetadata(d, f) ==
  LET m == Put(Put(d, "filename", f.name), "file_mtime", f.mtime)
  IN  IF Has(m, "scenario") THEN m
      ELSE Put(m, "scenario", InferScenario(f.name))

\* ClientRecord taking num_clients from the entry, not from the report.
ClientRecordOwnCount(entry, data, f) ==
  LET m == Put(Put(entry, "filename", f.name), "file_mtime", f.mtime)
      n == Put(Put(m, "report_id", Get(data, "benchmark_id", "unknown")),
               "num_clients", Get(entry, "num_clients", 1))
  IN  IF Has(n, "scenario") THEN n
      ELSE Put(n, "scenario", InferScenario(f.name))

\* One entry of client_results, with the report's id and client count.
ClientRecord(entry, data, f) ==
  LET m == Put(Put(entry, "filename", f.name), "file_mtime", f.mtime)
      n == Put(Put(m, "report_id", Get(data, "benchmark_id", "unknown")),
               "num_clients", Get(data, "num_clients", 1))
  IN  IF Has(n, "scenario") THEN n
      ELSE Put(n, "scenario", InferScenario(f.name))

\* FileRecords leaving out the client entries that have no zkp_metrics.
FileRecordsDropsLean(f) ==
  IF f.data.kind = "invalid" THEN [outcome |-> "skip", records |-> <<>>]
  ELSE IF f.data.kind = "array" THEN [outcome |-> "abort", records |-> <<>>]
  ELSE LET data == f.data.obj
           WithZkp(entry) == Has(entry, "zkp_metrics")
           kept == IF Has(data, "client_results")
                     THEN SelectSeq(data.client_results, WithZkp) ELSE <<>>
       IN
       IF Has(data, "client_results")
         THEN [outcome |-> "ok",
               records |-> [i \in 1..Len(kept) |->
                              ClientRecord(kept[i], data, f)]]
         ELSE [outcome |-> "ok", records |-> <<WithMetadata(data, f)>>]

\* The body of `for file_path in all_files`: the records the file gives
\* ("ok"), or JSONDecodeError, caught in the loop ("skip"), or a TypeError,
\* which only the outer `except Exception` catches ("abort").
FileRecords(f) ==
  IF f.data.kind = "invalid" THEN [outcome |-> "skip", records |-> <<>>]
  ELSE IF f.data.kind = "array" THEN [outcome |-> "abort", records |-> <<>>]
  ELSE LET data == f.data.obj IN
       IF Has(data, "client_results")
         THEN [outcome |-> "ok",
               records |-> [i \in 1..Len(data.client_results) |->
                              ClientRecord(data.client_results[i], data, f)]]
         ELSE [outcome |-> "ok", records |-> <<WithMetadata(data, f)>>]

\* What glob finds for BENCHMARK_DIR = "../benchmarks" when ".." is the
\* directory at depth d: `directory` is the benchmarks directory of the
\* orchestration root, which lies one level above the service's own
\* directory; no other directory has a benchmarks directory.
Listing(d) == IF d = WORKSPACE_DIR(ServiceDepth) THEN directory ELSE <<>>

\* A query arrives: its handler calls load_benchmark_files, which globs and
\* sorts.  (Which handler it is matters only once the files are loaded.)
load_begin ==
  /\ ~LoopBusy
  /\ loadpc = "none"
  /\ scan_dir' = WORKSPACE_DIR(cwd)
  /\ all_files' = SortedFiles(Listing(WORKSPACE_DIR(cwd)))
  /\ benchmark_files' = <<>>
  /\ loadpc' = IF SortedFiles(Listing(WORKSPACE_DIR(cwd))) = <<>>
                 THEN "loaded" ELSE "loop"
  /\ response' = [status |-> 0]
  /\ UNCHANGED <<directory, vars_supervisor, otherVars>>

\* One turn of the loop over all_files; on "abort" the function returns [].
load_file ==
  /\ loadpc = "loop"
  /\ LET got == FileRecords(Head(all_files)) IN
       IF got.outcome = "abort"
         THEN /\ benchmark_files' = <<>>
              /\ all_files' = <<>>
              /\ loadpc' = "loaded"
         ELSE /\ benchmark_files' = benchmark_files \o got.records
              /\ all_files' = Tail(all_files)
              /\ loadpc' = IF Tail(all_files) = <<>> THEN "loaded" ELSE "loop"
  /\ UNCHANGED <<directory, response, scan_dir, vars_supervisor, otherVars>>

\* -------------------------------------- calculate_aggregate_metrics
\* round(total / count, ndigits) for total >= 0 in units of 1/10000: the
\* nearest multiple of 10^-ndigits, a tie going to the even one.
Round(total, count, unit) ==
  LET den == count * unit
      low == total \div den
      rem == total % den
      n == IF 2 * rem < den THEN low
           ELSE IF 2 * rem > den THEN low + 1
           ELSE IF low % 2 = 0 THEN low ELSE low + 1
  IN  n * unit

Round2(total, count) == Round(total, count, 100)

\* round(total / count, 2) where the code has 4.
Round4AsRound2(total, count) == Round(total, count, 100)

Round4(total, count) == Round(total, count, 1)

\* A JSON value that is not an object where the code expects a dict (null,
\* a string, a number), written as a tagged value of its Python type.
NonDict(type) == [t \in {"<type>"} |-> type]

\* isinstance(v, dict)
IsDict(v) == "<type>" \notin DOMAIN v

\* zkp_metrics.get / training_metrics.get raise AttributeError when the
\* value stored under the key is not a dict (the default {} is one).
RaisesAttributeError(benchmarks) ==
  \E i \in 1..Len(benchmarks) :
    /\ IsDict(benchmarks[i])
    /\ \/ ~IsDict(Get(benchmarks[i], "zkp_metrics", <<>>))
       \/ ~IsDict(Get(benchmarks[i], "training_metrics", <<>>))

\* totals[...] += benchmark.get(sub, {}).get(key, 0) over the benchmarks
\* that are dicts
RECURSIVE TotalOf(_, _, _)
TotalOf(benchmarks, sub, key) ==
  IF benchmarks = <<>> THEN 0
  ELSE (IF IsDict(Head(benchmarks))
          THEN Get(Get(Head(benchmarks), sub, <<>>), key, 0) ELSE 0)
         + TotalOf(Tail(benchmarks), sub, key)

\* totals["duration"] += benchmark.get('total_duration_ms', 0)
RECURSIVE TotalDuration(_)
TotalDuration(benchmarks) ==
  IF benchmarks = <<>> THEN 0
  ELSE (IF IsDict(Head(benchmarks))
          THEN Get(Head(benchmarks), "total_duration_ms", 0) ELSE 0)
         + TotalDuration(Tail(benchmarks))

\* count += 1 only for a benchmark that has one of the metric subtrees.
CountOfWithMetrics(benchmarks) ==
  LET WithMetrics(b) == Has(b, "zkp_metrics") \/ Has(b, "training_metrics")
                          \/ Has(b, "total_duration_ms")
  IN  Len(SelectSeq(benchmarks, WithMetrics))

\* count += 1 for every benchmark that is a dict (each loaded record is).
CountOf(benchmarks) == Len(SelectSeq(benchmarks, IsDict))

\* The dict returned, or [raised |-> ...] when the loop raises.
calculate_aggregate_metrics(benchmarks) ==
  IF benchmarks = <<>>
    THEN [total_benchmarks |-> 0, avg_proof_time |-> 0, avg_verify_time |-> 0,
          avg_training_time |-> 0, avg_final_loss |-> 0, avg_proof_size |-> 0,
          total_duration |-> 0]
    ELSE IF RaisesAttributeError(benchmarks)
      THEN [raised |-> "AttributeError"]
    ELSE LET count == IF CountOf(benchmarks) = 0 THEN 1
                      ELSE CountOf(benchmarks)
         IN [total_benchmarks |-> Len(benchmarks),
             avg_proof_time |->
               Round2(TotalOf(benchmarks, "zkp_metrics",
                              "proof_generation_time_ms"), count),
             avg_verify_time |->
               Round2(TotalOf(benchmarks, "zkp_metrics",
                              "proof_verification_time_ms"), count),
             avg_training_time |->
               Round2(TotalOf(benchmarks, "training_metrics",
                              "training_time_ms"), count),
             avg_final_loss |->
               Round4(TotalOf(benchmarks, "training_metrics", "final_loss"),
                      count),
             avg_proof_size |->
               Round2(TotalOf(benchmarks, "zkp_metrics", "proof_size_bytes"),
                      count),
             total_duration |-> Round2(TotalDuration(benchmarks), count)]

\* ------------------------------------------------------- handlers
\* GET /api/benchmarks
get_benchmarks ==
  /\ loadpc = "loaded"
  /\ response' =
       IF Has(calculate_aggregate_metrics(benchmark_files), "raised")
         THEN [status |-> 500, handler |-> "get_benchmarks",
               detail |-> <<"Failed to load benchmarks: ",
                            calculate_aggregate_metrics(benchmark_files).raised>>]
         ELSE [status |-> 200, handler |-> "get_benchmarks",
               benchmarks |-> benchmark_files,
               count |-> Len(benchmark_files),
               metrics |-> calculate_aggregate_metrics(benchmark_files)]
  /\ loadpc' = "none"
  /\ UNCHANGED <<directory, all_files, benchmark_files, scan_dir,
                 vars_supervisor, otherVars>>

\* GET /api/metrics
get_metrics ==
  /\ loadpc = "loaded"
  /\ response' =
       IF Has(calculate_aggregate_metrics(benchmark_files), "raised")
         THEN [status |-> 500, handler |-> "get_metrics",
               detail |-> <<"Failed to calculate metrics: ",
                            calculate_aggregate_metrics(benchmark_files).raised>>]
         ELSE [status |-> 200, handler |-> "get_metrics",
               metrics |-> calculate_aggregate_metrics(benchmark_files)]
  /\ loadpc' = "none"
  /\ UNCHANGED <<directory, all_files, benchmark_files, scan_dir,
                 vars_supervisor, otherVars>>

SessionIds == {"s1", "s9"}

\* GET /api/benchmarks/{session_id}: the first record with that session_id;
\* without one HTTPException(404) is raised inside the try, caught by its
\* `except Exception` and raised again with status 500.  (How str(e)
\* renders the 404 depends on the Starlette version; its detail stands for it.)
get_benchmark(session_id) ==
  /\ loadpc = "loaded"
  /\ LET hits == {i \in 1..Len(benchmark_files) :
                    Get(benchmark_files[i], "session_id", PyNone) = session_id}
     IN  response' =
           IF hits = {}
             THEN [status |-> 500, handler |-> "get_benchmark",
                   asked |-> session_id,
                   detail |-> <<"Failed to get benchmark: ",
                                "Benchmark not found">>]
             ELSE [status |-> 200, handler |-> "get_benchmark",
                   asked |-> session_id,
                   benchmark |->
                     benchmark_files[CHOOSE i \in hits :
                                       \A j \in hits : i <= j]]
  /\ loadpc' = "none"
  /\ UNCHANGED <<directory, all_files, benchmark_files, scan_dir,
                 vars_supervisor, otherVars>>

\* ------------------------------------------------------- get_runs
\* run_id = b.get('report_id') or b.get('session_id')
RunId(b) ==
  IF ~Falsy(Get(b, "report_id", PyNone)) THEN b.report_id
  ELSE Get(b, "session_id", PyNone)

\* AddToRuns without the `run_id not in runs` test: a new entry each time.
AddToRunsNoMerge(runs, b) ==
  IF Falsy(RunId(b)) THEN runs
  ELSE Append(runs, [run_id |-> RunId(b),
                     scenario |-> Get(b, "scenario", "unknown"),
                     start_time |-> Get(b, "start_time", PyNone),
                     num_clients |-> Get(b, "num_clients", 1),
                     client_ids |-> IF Falsy(Get(b, "client_id", PyNone))
                                      THEN <<>> ELSE <<b.client_id>>])

\* AddToRuns taking scenario, start_time and num_clients from every record
\* of the run in turn, so that the last one stays.
AddToRunsLastWins(runs, b) ==
  IF Falsy(RunId(b)) THEN runs
  ELSE
    LET known == \E i \in 1..Len(runs) : runs[i].run_id = RunId(b)
        with == IF known THEN runs
                ELSE Append(runs, [run_id |-> RunId(b),
                                   scenario |-> Get(b, "scenario", "unknown"),
                                   start_time |-> Get(b, "start_time", PyNone),
                                   num_clients |-> Get(b, "num_clients", 1),
                                   client_ids |-> <<>>])
        at == CHOOSE i \in 1..Len(with) : with[i].run_id = RunId(b)
        cid == Get(b, "client_id", PyNone)
        seen == [with EXCEPT ![at].scenario = Get(b, "scenario", "unknown"),
                             ![at].start_time = Get(b, "start_time", PyNone),
                             ![at].num_clients = Get(b, "num_clients", 1)]
    IN  IF /\ ~Falsy(cid)
           /\ \A k \in 1..Len(seen[at].client_ids) :
                seen[at].client_ids[k] # cid
          THEN [seen EXCEPT ![at].client_ids = Append(@, cid)]
          ELSE seen

\* One turn of `for b in benchmarks`; runs is the dict, in insertion order.
AddToRuns(runs, b) ==
  IF Falsy(RunId(b)) THEN runs
  ELSE
    LET known == \E i \in 1..Len(runs) : runs[i].run_id = RunId(b)
        with == IF known THEN runs
                ELSE Append(runs, [run_id |-> RunId(b),
                                   scenario |-> Get(b, "scenario", "unknown"),
                                   start_time |-> Get(b, "start_time", PyNone),
                                   num_clients |-> Get(b, "num_clients", 1),
                                   client_ids |-> <<>>])
        at == CHOOSE i \in 1..Len(with) : with[i].run_id = RunId(b)
        cid == Get(b, "client_id", PyNone)
    IN  IF /\ ~Falsy(cid)
           /\ \A k \in 1..Len(with[at].client_ids) :
                with[at].client_ids[k] # cid
          THEN [with EXCEPT ![at].client_ids = Append(@, cid)]
          ELSE with

RECURSIVE RunsOf(_)
RunsOf(benchmarks) ==
  IF benchmarks = <<>> THEN <<>>
  ELSE AddToRuns(RunsOf(SubSeq(benchmarks, 1, Len(benchmarks) - 1)),
                 benchmarks[Len(benchmarks)])

\* The strings used as start_time, in the order Python compares them.
StringOrder == <<"", "2024-01-02T10:00:00", "2024-01-03T09:30:00", "n/a">>

\* key=lambda x: x['start_time'] or ''
StartKey(run) ==
  LET str == IF Falsy(run.start_time) THEN "" ELSE run.start_time
  IN  CHOOSE i \in 1..Len(StringOrder) : StringOrder[i] = str

\* sorted(runs.values(), key=..., reverse=True)
RunList(benchmarks) ==
  LET runs == RunsOf(benchmarks)
  IN  Items(SortDesc([i \in 1..Len(runs) |-> <<StartKey(runs[i]), runs[i]>>]))

\* GET /api/runs
get_runs ==
  /\ loadpc = "loaded"
  /\ response' = [status |-> 200, handler |-> "get_runs",
                  runs |-> RunList(benchmark_files),
                  count |-> Len(RunList(benchmark_files))]
  /\ loadpc' = "none"
  /\ UNCHANGED <<directory, all_files, benchmark_files, scan_dir,
                 vars_supervisor, otherVars>>

\* GET /api/files: the matches of the two patterns, one entry per match,
\* sorted by their modification time as an ISO string, newest first.  (The
\* size of a file is left out.)
list_benchmark_files ==
  /\ ~LoopBusy
  /\ loadpc = "none"
  /\ scan_dir' = WORKSPACE_DIR(cwd)
  /\ LET dir == Listing(WORKSPACE_DIR(cwd))
         found == SelectSeq(dir, PatternBenchmark)
                    \o SelectSeq(dir, PatternReport)
         files == Items(SortDesc([i \in 1..Len(found) |->
                    <<found[i].mtime,
                      [name |-> found[i].name,
                       path |-> BENCHMARK_DIR \o found[i].name,
                       modified |-> found[i].mtime]>>]))
     IN  response' = [status |-> 200, handler |-> "list_benchmark_files",
                      files |-> files, count |-> Len(files)]
  /\ UNCHANGED <<directory, loadpc, all_files, benchmark_files,
                 vars_supervisor, otherVars>>

\* --------------------------------------- specification of the queries
\* Any directory; the supervisor idle, as at start.
ScanInit ==
  /\ directory \in Directories
  /\ loadpc = "none"
  /\ all_files = <<>>
  /\ benchmark_files = <<>>
  /\ response = [status |-> 0]
  /\ benchmark_status = [running |-> FALSE, message |-> <<"">>]
  /\ current_benchmark_process = None
  /\ cwd = ServiceDepth
  /\ pc = [r \in Runs |-> "none"]
  /\ original_cwd = [r \in Runs |-> 0]
  /\ exc = [r \in Runs |-> "none"]
  /\ child = [r \in Runs |-> NoChild]
  /\ finished = <<>>
  /\ startReply = "none"
  /\ stopReq = NoStop
  /\ statusReply = NoStatus
  /\ scan_dir = -1
  /\ FunctionsIdle
  /\ FlaskIdle

ScanNext ==
  \/ load_begin
  \/ load_file
  \/ get_benchmarks
  \/ get_metrics
  \/ get_runs
  \/ \E session_id \in SessionIds : get_benchmark(session_id)
  \/ list_benchmark_files

ScanSpec == ScanInit /\ [][ScanNext]_vars

\* ===================================================== claims, queries
\* A file holding a JSON object from which at least one record comes.
GivesRecords(f) ==
  /\ f.data.kind = "object"
  /\ Has(f.data.obj, "client_results") => f.data.obj.client_results # <<>>

\* A file holding one record (a JSON object without client_results).
SingleRecordFile(f) ==
  f.data.kind = "object" /\ ~Has(f.data.obj, "client_results")

Answered(handler) == response.status # 0 /\ response.handler = handler

\* C12: the scan skips what it cannot read and goes on: in the answer of
\* listRecords every file that gives records is represented, whatever the
\* other files hold; one invalid file and two single-record files give
\* exactly two records.
C12_SkipAndContinue ==
  Answered("get_benchmarks") =>
    /\ \A i \in 1..Len(directory) :
         GivesRecords(directory[i]) =>
           \E k \in 1..Len(response.benchmarks) :
             response.benchmarks[k].filename = directory[i].name
    /\ (/\ Len(directory) = 3
        /\ Cardinality({i \in 1..3 : directory[i].data.kind = "invalid"}) = 1
        /\ Cardinality({i \in 1..3 : SingleRecordFile(directory[i])}) = 2)
         => response.count = 2

\* C13: getRecord for an id no record carries is answered NotFound (404);
\* for an id that is present it answers a record with that session_id.
C13_NotFound ==
  Answered("get_benchmark") =>
    IF \E k \in 1..Len(benchmark_files) :
         Get(benchmark_files[k], "session_id", PyNone) = response.asked
      THEN /\ response.status = 200
           /\ response.benchmark.session_id = response.asked
      ELSE response.status = 404

\* The key of a record's run: report_id when present, else session_id.
RunKey(b) ==
  IF Has(b, "report_id") /\ ~Falsy(b.report_id) THEN b.report_id
  ELSE IF Has(b, "session_id") THEN b.session_id
  ELSE PyNone

GroupsOf(b) ==
  {j \in 1..Len(response.runs) : response.runs[j].run_id = RunKey(b)}

\* C14 as claimed: every record belongs to exactly one run group.
C14_Partition ==
  Answered("get_runs") =>
    \A i \in 1..Len(benchmark_files) :
      Cardinality(GroupsOf(benchmark_files[i])) = 1

\* C14 as amended: every record that has a non-empty report_id or
\* session_id belongs to exactly one run group, a record with neither
\* belongs to none, and every group is the group of some record.
C14_PartitionOfKeyed ==
  Answered("get_runs") =>
    /\ \A i \in 1..Len(benchmark_files) :
         Cardinality(GroupsOf(benchmark_files[i])) =
           IF Falsy(RunKey(benchmark_files[i])) THEN 0 ELSE 1
    /\ \A j \in 1..Len(response.runs) :
         \E i \in 1..Len(benchmark_files) :
           RunKey(benchmark_files[i]) = response.runs[j].run_id
    /\ response.count = Len(response.runs)

\* C14 witness: runs listed for records of which one has no id, two share
\* a report_id and one is keyed by its session_id.
C14_Witness ==
  /\ Answered("get_runs")
  /\ \E i \in 1..Len(benchmark_files) : Falsy(RunKey(benchmark_files[i]))
  /\ \E i, j \in 1..Len(benchmark_files) :
       /\ i # j
       /\ RunKey(benchmark_files[i]) = "r1"
       /\ RunKey(benchmark_files[j]) = "r1"
  /\ \E i \in 1..Len(benchmark_files) :
       ~Has(benchmark_files[i], "report_id") /\ RunKey(benchmark_files[i]) = "s1"

\* C15: every record the scan emits has a scenario that is a non-empty
\* string.
C15_ScenarioNonEmpty ==
  \A k \in 1..Len(benchmark_files) :
    /\ Has(benchmark_files[k], "scenario")
    /\ benchmark_files[k].scenario # PyNone
    /\ benchmark_files[k].scenario # ""

\* A turn of the scan loop that reads a file holding a JSON object.
ReadsObject == loadpc = "loop" /\ Head(all_files).data.kind = "object"

\* The dicts the file read in this turn holds, and the records it adds.
Entries ==
  LET data == Head(all_files).data.obj
  IN  IF Has(data, "client_results") THEN data.client_results ELSE <<data>>

NewRecords ==
  SubSeq(benchmark_files', Len(benchmark_files) + 1, Len(benchmark_files'))

NameScenario(name) ==
  IF Contains(name, <<"m","u","l","t","i">>) THEN "multi-client"
  ELSE IF Contains(name, <<"s","i","n","g","l","e">>) THEN "single-client"
  ELSE "unknown"

\* C16 as claimed: a record without a scenario field gets the scenario of
\* its file's name (contains "multi", else contains "single", else
\* unknown); a record with a scenario field keeps it.
C16_ScenarioFromName ==
  [][ReadsObject =>
       /\ Len(NewRecords) = Len(Entries)
       /\ \A i \in 1..Len(Entries) :
            NewRecords[i].scenario =
              IF Has(Entries[i], "scenario") THEN Entries[i].scenario
              ELSE NameScenario(Head(all_files).name)]_vars

\* C16 as amended: the same, the name being compared in lower case, so
\* that "MULTI" and "Single" count as well.
C16_ScenarioFromLowerName ==
  [][ReadsObject =>
       /\ Len(NewRecords) = Len(Entries)
       /\ \A i \in 1..Len(Entries) :
            NewRecords[i].scenario =
              IF Has(Entries[i], "scenario") THEN Entries[i].scenario
              ELSE NameScenario(lower(Head(all_files).name))]_vars

HasRecord(name, session_id, scenario) ==
  \E k \in 1..Len(benchmark_files) :
    /\ benchmark_files[k].filename = name
    /\ Get(benchmark_files[k], "session_id", PyNone) = session_id
    /\ benchmark_files[k].scenario = scenario

\* C16 witness: scenarios inferred from an upper-case name, from "single"
\* and from neither, and an explicit scenario kept.
C16_Witness ==
  /\ loadpc = "loaded"
  /\ HasRecord(N_upper, "s1", "multi-client")
  /\ HasRecord(N_single, "s3", "single-client")
  /\ HasRecord(N_report, "s3", "unknown")
  /\ HasRecord(N_report, "s2", "custom")

Provenance == {"filename", "file_mtime", "report_id", "num_clients", "scenario"}

\* C17: a report with N client entries gives N records in the entries'
\* order, each with the report's benchmark_id as report_id, its
\* num_clients, the file's name and modification time; a single-record
\* file gives one record with the file's name and modification time.
C17_ReportGivesNRecords ==
  [][ReadsObject =>
       LET f == Head(all_files) IN
       /\ Len(NewRecords) = Len(Entries)
       /\ ~Has(f.data.obj, "client_results") => Len(NewRecords) = 1
       /\ \A i \in 1..Len(Entries) :
            /\ NewRecords[i].filename = f.name
            /\ NewRecords[i].file_mtime = f.mtime
            /\ \A key \in DOMAIN Entries[i] \ Provenance :
                 NewRecords[i][key] = Entries[i][key]
            /\ (Has(f.data.obj, "client_results")
                  /\ Has(f.data.obj, "benchmark_id"))
                 => NewRecords[i].report_id = f.data.obj.benchmark_id
            /\ (Has(f.data.obj, "client_results")
                  /\ Has(f.data.obj, "num_clients"))
                 => NewRecords[i].num_clients = f.data.obj.num_clients]_vars

\* C17 witness: the two entries of report r1 have become two records, in
\* order, after the record of a single-record file.
C17_Witness ==
  /\ loadpc \in {"loop", "loaded"}
  /\ \E k \in 1..Len(benchmark_files) - 2 :
       /\ ~Has(benchmark_files[k], "report_id")
       /\ benchmark_files[k + 1].session_id = "s2"
       /\ benchmark_files[k + 1].report_id = "r1"
       /\ benchmark_files[k + 1].num_clients = 2
       /\ benchmark_files[k + 2].session_id = "s3"
       /\ benchmark_files[k + 2].report_id = "r1"
       /\ benchmark_files[k + 2].num_clients = 2

Abs(n) == IF n < 0 THEN -n ELSE n

\* avg is total / count to within half of unit.
IsMean(avg, total, count, unit) == 2 * Abs(avg * count - total) <= count * unit

\* The six averages: key of the answer, subtree and key of the record
\* ("" for the record itself), and the unit of 0.01.
Averages ==
  {<<"avg_proof_time", "zkp_metrics", "proof_generation_time_ms">>,
   <<"avg_verify_time", "zkp_metrics", "proof_verification_time_ms">>,
   <<"avg_training_time", "training_metrics", "training_time_ms">>,
   <<"avg_final_loss", "training_metrics", "final_loss">>,
   <<"avg_proof_size", "zkp_metrics", "proof_size_bytes">>,
   <<"total_duration", "", "total_duration_ms">>}

Hundredth == 100
TenThousandth == 1

Carries(b, sub, key) ==
  IF sub = "" THEN Has(b, key) ELSE Has(b, sub) /\ Has(b[sub], key)

Value(b, sub, key) == IF sub = "" THEN b[key] ELSE b[sub][key]

\* The sum of a metric over the records that carry it.
RECURSIVE SumCarried(_, _, _)
SumCarried(records, sub, key) ==
  IF records = <<>> THEN 0
  ELSE (IF Carries(Head(records), sub, key)
          THEN Value(Head(records), sub, key) ELSE 0)
       + SumCarried(Tail(records), sub, key)

Lean(b) == ~Has(b, "zkp_metrics") \/ ~Has(b, "training_metrics")

\* C18: a client entry without zkp_metrics or training_metrics becomes a
\* record all the same and the loop goes on to the next file; in the
\* answer of listRecords every record is counted, and each average is the
\* sum over the records that carry the metric, divided by that count.
C18_LeanEntryKept ==
  [][/\ (ReadsObject /\ Has(Head(all_files).data.obj, "client_results")) =>
          /\ Len(NewRecords) = Len(Entries)
          /\ \A i \in 1..Len(Entries) :
               Lean(Entries[i]) =>
                 /\ NewRecords[i].session_id = Entries[i].session_id
                 /\ Lean(NewRecords[i])
          /\ all_files' = Tail(all_files)
          /\ loadpc' = IF Tail(all_files) = <<>> THEN "loaded" ELSE "loop"
     /\ (loadpc = "loaded" /\ response'.status # 0
           /\ response'.handler = "get_benchmarks") =>
          /\ response'.benchmarks = benchmark_files
          /\ response'.count = Len(benchmark_files)
          /\ response'.metrics.total_benchmarks = Len(benchmark_files)
          /\ \A a \in Averages :
               benchmark_files # <<>> =>
                 IsMean(response'.metrics[a[1]],
                        SumCarried(benchmark_files, a[2], a[3]),
                        Len(benchmark_files), Hundredth)]_vars

\* C18 witness: listRecords has answered three or more records, one of
\* them the entry s3 that has no metrics, followed by another file's
\* record, and the average proof time is not zero.
C18_Witness ==
  /\ Answered("get_benchmarks")
  /\ response.count >= 3
  /\ response.metrics.avg_proof_time > 0
  /\ \E k \in 1..Len(response.benchmarks) - 1 :
       /\ Lean(response.benchmarks[k])
       /\ Has(response.benchmarks[k], "report_id")
       /\ response.benchmarks[k + 1].filename # response.benchmarks[k].filename

AnyMetric(b) == \E a \in Averages : Carries(b, a[2], a[3])

\* C19 as claimed: every average is the metric's sum divided by the number
\* of records that carry at least one metric.
C19_DenominatorWithMetrics ==
  (Answered("get_metrics")
     /\ \E k \in 1..Len(benchmark_files) : AnyMetric(benchmark_files[k])) =>
    \A a \in Averages :
      IsMean(response.metrics[a[1]],
             SumCarried(benchmark_files, a[2], a[3]),
             Cardinality({k \in 1..Len(benchmark_files) :
                            AnyMetric(benchmark_files[k])}),
             Hundredth)

\* C19 as amended: every average is the metric's sum divided by the
\* number of all records, those without any metric included; a record
\* without the metric adds 0 to the sum.
C19_DenominatorAllRecords ==
  (Answered("get_metrics") /\ benchmark_files # <<>>) =>
    \A a \in Averages :
      IsMean(response.metrics[a[1]],
             SumCarried(benchmark_files, a[2], a[3]),
             Len(benchmark_files), Hundredth)

\* C19 witness: metrics answered for records of which one carries no
\* metric at all and another carries them all.
C19_Witness ==
  /\ Answered("get_metrics")
  /\ \E k \in 1..Len(benchmark_files) : ~AnyMetric(benchmark_files[k])
  /\ \E k \in 1..Len(benchmark_files) :
       \A a \in Averages : Carries(benchmark_files[k], a[2], a[3])
  /\ response.metrics.avg_final_loss > 0

AllCarried ==
  /\ benchmark_files # <<>>
  /\ \A k \in 1..Len(benchmark_files) :
       \A a \in Averages : Carries(benchmark_files[k], a[2], a[3])

\* C20 as claimed: when every record carries all metrics, each of the six
\* averages is the mean rounded to 2 decimal places.
C20_TwoDecimals ==
  (Answered("get_metrics") /\ AllCarried) =>
    \A a \in Averages :
      /\ response.metrics[a[1]] % Hundredth = 0
      /\ IsMean(response.metrics[a[1]],
                SumCarried(benchmark_files, a[2], a[3]),
                Len(benchmark_files), Hundredth)

\* C20 as amended: when every record carries all metrics, the average
\* final loss is the mean rounded to 4 decimal places and the other five
\* averages are the means rounded to 2 decimal places.
C20_TwoDecimalsLossFour ==
  (Answered("get_metrics") /\ AllCarried) =>
    \A a \in Averages :
      LET unit == IF a[1] = "avg_final_loss" THEN TenThousandth
                  ELSE Hundredth
      IN  /\ response.metrics[a[1]] % unit = 0
          /\ IsMean(response.metrics[a[1]],
                    SumCarried(benchmark_files, a[2], a[3]),
                    Len(benchmark_files), unit)

\* C20 witness: metrics answered for three records with all metrics,
\* whose mean final loss and mean proof time need rounding.
C20_Witness ==
  /\ Answered("get_metrics")
  /\ AllCarried
  /\ Len(benchmark_files) = 3
  /\ SumCarried(benchmark_files, "training_metrics", "final_loss") % 3 # 0
  /\ SumCarried(benchmark_files, "zkp_metrics", "proof_generation_time_ms")
       % (3 * Hundredth) # 0
  /\ response.metrics.avg_final_loss % Hundredth # 0

\* ================================================ claims, supervisor II
\* C26: every benchmark process is started in the orchestration root, the
\* directory one level above the service's own directory.
C26_ChildInOrchestrationRoot ==
  \A r \in Runs :
    child[r].state # "unborn" => child[r].cwd = WORKSPACE_DIR(ServiceDepth)

\* C27: while a benchmark process is alive and no stop was accepted, the
\* status says running and the handle is that process; in particular the
\* finally block of an earlier run leaves both alone.
C27_NoClobber ==
  \A r \in Runs :
    (child[r].state = "alive" /\ stopReq.reply \notin StopAccepted)
      => /\ benchmark_status.running
         /\ current_benchmark_process = r
         /\ \A q \in Runs : pc[q] = "finally" => q = r

\* C27 witness: an earlier run is through its finally block, a stop was
\* asked for and refused, and a later run's process is alive and owned.
C27_Witness ==
  /\ finished # <<>>
  /\ stopReq.reply = "No benchmark running"
  /\ \E r \in Runs :
       /\ r \notin {finished[i] : i \in 1..Len(finished)}
       /\ child[r].state = "alive"
       /\ current_benchmark_process = r
       /\ benchmark_status.running

\* ============================================ the two pure functions
MaxRecords == 2       \* length of a list given to calculate_aggregate_metrics

\* a record whose zkp_metrics is null
RecNullZkp == [session_id |-> "s6", zkp_metrics |-> NonDict("NoneType"),
               training_metrics |-> TrainA]

\* What a list given to calculate_aggregate_metrics may hold.
AnyRecords == {RecA, RecB, RecLean, RecBare, RecNullZkp, NonDict("str")}

RecordLists == UNION {[1..n -> AnyRecords] : n \in 0..MaxRecords}

\* BenchmarkConfig: scenario is any string, serverUrl is optional.
Configs ==
  [scenario : {"single-client", "stress-test", "my-own-scenario", ""},
   numClients : {1, 10},
   numRounds : {1, 5},
   clientDelay : {0, 100},
   maxConcurrent : {1, 4},
   serverUrl : {PyNone, "", "http://127.0.0.1:8080"}]

scenario_mapping ==
  [name \in {"single-client", "multi-client-sequential",
             "multi-client-concurrent", "stress-test", "custom"} |-> name]

\* build_benchmark_command with --server-url appended after --verbose.
build_benchmark_commandUrlLast(cfg) ==
  <<"cargo", "run", "--bin", "benchmarks", "--">>
    \o <<"--scenario", Get(scenario_mapping, cfg.scenario, cfg.scenario)>>
    \o <<"--num-clients", ToString(cfg.numClients)>>
    \o <<"--rounds", ToString(cfg.numRounds)>>
    \o <<"--client-delay-ms", ToString(cfg.clientDelay)>>
    \o <<"--max-concurrent", ToString(cfg.maxConcurrent)>>
    \o <<"--verbose">>
    \o (IF Falsy(cfg.serverUrl) THEN <<>>
        ELSE <<"--server-url", cfg.serverUrl>>)

\* str(n) is ToString(n); `if config.serverUrl` is false for None and "".
build_benchmark_command(cfg) ==
  <<"cargo", "run", "--bin", "benchmarks", "--">>
    \o <<"--scenario", Get(scenario_mapping, cfg.scenario, cfg.scenario)>>
    \o <<"--num-clients", ToString(cfg.numClients)>>
    \o <<"--rounds", ToString(cfg.numRounds)>>
    \o <<"--client-delay-ms", ToString(cfg.clientDelay)>>
    \o <<"--max-concurrent", ToString(cfg.maxConcurrent)>>
    \o (IF Falsy(cfg.serverUrl) THEN <<>>
        ELSE <<"--server-url", cfg.serverUrl>>)
    \o <<"--verbose">>

\* The supervisor as at start, the Flask variant without requests, and no
\* query so far.
ServiceIdle ==
  /\ benchmark_status = [running |-> FALSE, message |-> <<"">>]
  /\ current_benchmark_process = None
  /\ cwd = ServiceDepth
  /\ pc = [r \in Runs |-> "none"]
  /\ original_cwd = [r \in Runs |-> 0]
  /\ exc = [r \in Runs |-> "none"]
  /\ child = [r \in Runs |-> NoChild]
  /\ finished = <<>>
  /\ startReply = "none"
  /\ stopReq = NoStop
  /\ statusReply = NoStatus

QueriesIdle ==
  /\ loadpc = "none"
  /\ all_files = <<>>
  /\ benchmark_files = <<>>
  /\ response = [status |-> 0]
  /\ scan_dir = -1

\* cmd = build_benchmark_command(config)
build ==
  /\ cmd = <<>>
  /\ cmd' = build_benchmark_command(config)
  /\ UNCHANGED <<config, agg_benchmarks, metrics, flaskVars, scanVars,
                 vars_supervisor>>

\* calculate_aggregate_metrics(agg_benchmarks)
aggregate ==
  /\ ~metrics.called
  /\ metrics' = [called |-> TRUE,
                 result |-> calculate_aggregate_metrics(agg_benchmarks)]
  /\ UNCHANGED <<config, cmd, agg_benchmarks, flaskVars, scanVars,
                 vars_supervisor>>

FunctionInit ==
  /\ config \in Configs
  /\ cmd = <<>>
  /\ agg_benchmarks \in RecordLists
  /\ metrics = [called |-> FALSE]
  /\ directory = <<>>
  /\ ServiceIdle
  /\ QueriesIdle
  /\ FlaskIdle

FunctionNext == build \/ aggregate

FunctionSpec == FunctionInit /\ [][FunctionNext]_vars

\* ============================================ claims, pure functions
ZeroMetrics ==
  [total_benchmarks |-> 0, avg_proof_time |-> 0, avg_verify_time |-> 0,
   avg_training_time |-> 0, avg_final_loss |-> 0, avg_proof_size |-> 0,
   total_duration |-> 0]

\* C21: calculate_aggregate_metrics gives the all-zero result with
\* total_benchmarks = 0 for the empty list, and for every other list it
\* returns a result with the seven keys: it never raises.
C21_AlwaysAResult ==
  metrics.called =>
    IF agg_benchmarks = <<>> THEN metrics.result = ZeroMetrics
    ELSE /\ DOMAIN metrics.result = DOMAIN ZeroMetrics
         /\ metrics.result.total_benchmarks = Len(agg_benchmarks)

Occurrences(seq, x) == Cardinality({i \in 1..Len(seq) : seq[i] = x})

UrlGiven == config.serverUrl # PyNone /\ config.serverUrl # ""

\* C24: the command is cargo run --bin benchmarks -- followed by
\* --scenario with the configured scenario unchanged, --num-clients,
\* --rounds, --client-delay-ms and --max-concurrent with their values, once
\* each and in this order; --server-url and the URL follow exactly when a
\* server URL was given; --verbose is the last argument.
C24_CommandOfConfig ==
  cmd # <<>> =>
    /\ SubSeq(cmd, 1, 5) = <<"cargo", "run", "--bin", "benchmarks", "--">>
    /\ cmd[6] = "--scenario" /\ cmd[7] = config.scenario
    /\ cmd[8] = "--num-clients" /\ cmd[9] = ToString(config.numClients)
    /\ cmd[10] = "--rounds" /\ cmd[11] = ToString(config.numRounds)
    /\ cmd[12] = "--client-delay-ms"
    /\ cmd[13] = ToString(config.clientDelay)
    /\ cmd[14] = "--max-concurrent"
    /\ cmd[15] = ToString(config.maxConcurrent)
    /\ \A flag \in {"--scenario", "--num-clients", "--rounds",
                    "--client-delay-ms", "--max-concurrent", "--verbose"} :
         Occurrences(cmd, flag) = 1
    /\ IF UrlGiven
         THEN /\ Len(cmd) = 18
              /\ cmd[16] = "--server-url" /\ cmd[17] = config.serverUrl
         ELSE /\ Len(cmd) = 16
              /\ Occurrences(cmd, "--server-url") = 0
    /\ cmd[Len(cmd)] = "--verbose"

\* C24 witness: a command built for a scenario the service does not know,
\* with a server URL.
C24_Witness ==
  /\ cmd # <<>>
  /\ config.scenario = "my-own-scenario"
  /\ UrlGiven
  /\ Len(cmd) = 18

\* ================================================= claims, queries II
\* The start_time values that are timestamps, oldest first.
Timestamps == <<"2024-01-02T10:00:00", "2024-01-03T09:30:00">>

ValidStart(run) == \E t \in 1..Len(Timestamps) : Timestamps[t] = run.start_time

TimeOf(run) == CHOOSE t \in 1..Len(Timestamps) : Timestamps[t] = run.start_time

\* C22: the runs are listed by start_time, latest first, and every run
\* whose start_time is missing or is no timestamp comes after every run
\* that has one.
C22_RunsNewestFirst ==
  Answered("get_runs") =>
    \A i, j \in 1..Len(response.runs) :
      i < j =>
        /\ ValidStart(response.runs[j]) => ValidStart(response.runs[i])
        /\ (ValidStart(response.runs[i]) /\ ValidStart(response.runs[j]))
             => TimeOf(response.runs[i]) >= TimeOf(response.runs[j])

\* The records loaded from the file called name, in order.
RecordsFrom(name) ==
  LET FromIt(b) == b.filename = name IN SelectSeq(benchmark_files, FromIt)

EntriesOf(f) ==
  IF f.data.kind # "object" THEN <<>>
  ELSE IF Has(f.data.obj, "client_results") THEN f.data.obj.client_results
  ELSE <<f.data.obj>>

\* C23: the records of a scan are in non-increasing order of file_mtime;
\* the records of one report lie next to each other, in the order of the
\* report's entries.
C23_NewestFileFirst ==
  loadpc = "loaded" =>
    /\ \A i, j \in 1..Len(benchmark_files) :
         i < j => benchmark_files[i].file_mtime >= benchmark_files[j].file_mtime
    /\ \A i, j, k \in 1..Len(benchmark_files) :
         (i < k /\ k < j
            /\ benchmark_files[i].filename = benchmark_files[j].filename)
           => benchmark_files[k].filename = benchmark_files[i].filename
    /\ \A n \in 1..Len(directory) :
         RecordsFrom(directory[n].name) # <<>> =>
           [i \in 1..Len(RecordsFrom(directory[n].name)) |->
              Get(RecordsFrom(directory[n].name)[i], "session_id", PyNone)]
             = [i \in 1..Len(EntriesOf(directory[n])) |->
                  Get(EntriesOf(directory[n])[i], "session_id", PyNone)]

\* C28: every file is read once for a query: a file with N entries gives
\* N records to listRecords and to total_benchmarks, whichever patterns
\* match its name, and listFiles names every file once.
C28_EachFileOnce ==
  /\ Answered("get_benchmarks") =>
       /\ \A n \in 1..Len(directory) :
            Len(RecordsFrom(directory[n].name)) <= Len(EntriesOf(directory[n]))
       /\ response.metrics.total_benchmarks = Len(response.benchmarks)
       /\ \A n \in 1..Len(directory) :
            Cardinality({k \in 1..Len(response.benchmarks) :
                           response.benchmarks[k].filename = directory[n].name})
              <= Len(EntriesOf(directory[n]))
  /\ Answered("list_benchmark_files") =>
       /\ response.count = Len(directory)
       /\ \A n \in 1..Len(directory) :
            Cardinality({k \in 1..Len(response.files) :
                           response.files[k].name = directory[n].name}) = 1

\* The positions of the records of run g, and the first of them.
RecordsOfRun(g) ==
  {i \in 1..Len(benchmark_files) : RunKey(benchmark_files[i]) = g.run_id}

FirstOfRun(g) ==
  benchmark_files[CHOOSE i \in RecordsOfRun(g) :
                    \A j \in RecordsOfRun(g) : i <= j]

\* Where client id c is first met among the records of run g.
FirstMet(g, c) ==
  CHOOSE i \in RecordsOfRun(g) :
    /\ Get(benchmark_files[i], "client_id", PyNone) = c
    /\ \A j \in RecordsOfRun(g) :
         Get(benchmark_files[j], "client_id", PyNone) = c => i <= j

\* C25: a run's scenario, start_time and num_clients are those of the first
\* record with its run id; its client_ids are the non-empty client ids of
\* its records, each once, in the order in which they are first met.
C25_RunGroupContents ==
  Answered("get_runs") =>
    \A n \in 1..Len(response.runs) :
      LET g == response.runs[n] IN
      /\ RecordsOfRun(g) # {}
      /\ g.scenario = FirstOfRun(g).scenario
      /\ g.start_time = Get(FirstOfRun(g), "start_time", PyNone)
      /\ g.num_clients = Get(FirstOfRun(g), "num_clients", 1)
      /\ {g.client_ids[k] : k \in 1..Len(g.client_ids)}
           = {Get(benchmark_files[i], "client_id", PyNone) :
                i \in RecordsOfRun(g)} \ {PyNone, ""}
      /\ \A a, b \in 1..Len(g.client_ids) :
           a < b => FirstMet(g, g.client_ids[a]) < FirstMet(g, g.client_ids[b])

\* C25 witness: run s1 is listed with two client ids, from two records
\* that differ in scenario and start_time.
C25_Witness ==
  /\ Answered("get_runs")
  /\ \E n \in 1..Len(response.runs) :
       /\ response.runs[n].run_id = "s1"
       /\ Len(response.runs[n].client_ids) = 2
       /\ \E i, j \in RecordsOfRun(response.runs[n]) :
            /\ benchmark_files[i].scenario # benchmark_files[j].scenario
            /\ benchmark_files[i].start_time # benchmark_files[j].start_time

\* ================================== the service: runs and queries together
\* One record file in the benchmarks directory; clients start runs and ask
\* queries in any order.
ServiceInit ==
  /\ directory = <<[name |-> N_multi, mtime |-> 1, data |-> Object(RecA)]>>
  /\ ServiceIdle
  /\ QueriesIdle
  /\ FunctionsIdle
  /\ FlaskIdle

ServiceNext ==
  \/ run_benchmark
  \/ \E r \in Runs :
       \/ BgBegin(r)
       \/ BgChdir(r)
       \/ BgSpawn(r)
       \/ BgRunningMsg(r)
       \/ ChildExit(r)
       \/ BgCommunicate(r)
       \/ BgExcept(r)
       \/ BgFinally(r)
  \/ load_begin
  \/ load_file
  \/ get_benchmarks
  \/ get_metrics
  \/ list_benchmark_files

ServiceSpec == ServiceInit /\ [][ServiceNext]_vars

\* C29: whatever the supervisor is doing, a query scans the benchmarks
\* directory of the orchestration root and finds the file that is there.
C29_SameScanDirectory ==
  /\ scan_dir # -1 => scan_dir = WORKSPACE_DIR(ServiceDepth)
  /\ loadpc = "loaded" => Len(benchmark_files) = Len(directory)
  /\ Answered("list_benchmark_files") => response.count = Len(directory)

\* C29 witness: a scan has just read the file while one run is through
\* and the next one is accepted and not yet through.
C29_Witness ==
  /\ loadpc = "loaded"
  /\ finished # <<>>
  /\ \E r \in Runs : pc[r] = "queued"
  /\ Len(benchmark_files) = 1

\* ============================= the Flask variant, ayushdash/app.py
\* Flask serves each request on a thread of its own: the requests' steps
\* interleave.  load_benchmark_data reads the files the benchmark wrote,
\* which are not modelled: its outcome is any of the three it can have.
NumClients == {0, 1, 101}
NumRounds == {0, 1}

Returned(q, reply) ==
  /\ freply' = [freply EXCEPT ![q] = reply]
  /\ fpc' = [fpc EXCEPT ![q] = "returned"]

\* request.get_json() and the two range checks
app_validate(q) ==
  /\ fpc[q] = "none"
  /\ \A p \in Requests : p < q => fpc[p] # "none"
  /\ \E c \in NumClients, n \in NumRounds :
       /\ fparams' = [fparams EXCEPT ![q] = [num_clients |-> c,
                                             num_rounds |-> n]]
       /\ IF c < 1 \/ c > 100
            THEN Returned(q, "Number of clients must be an integer between 1 and 100")
          ELSE IF n < 1 \/ n > 50
            THEN Returned(q, "Number of rounds must be an integer between 1 and 50")
          ELSE /\ fpc' = [fpc EXCEPT ![q] = "validated"]
               /\ freply' = freply
  /\ UNCHANGED <<fchild, functionVars, scanVars, vars_supervisor>>

\* process = subprocess.Popen(benchmark_command, cwd=root_dir, ...), which
\* starts the process or raises (no cargo on the PATH).
app_spawn(q) ==
  /\ fpc[q] = "validated"
  /\ \/ /\ fchild' = [fchild EXCEPT ![q].state = "alive"]
        /\ fpc' = [fpc EXCEPT ![q] = "communicate"]
        /\ freply' = freply
     \/ /\ Returned(q, "Unexpected error")
        /\ fchild' = fchild
  /\ UNCHANGED <<fparams, functionVars, scanVars, vars_supervisor>>

\* The benchmark process ends by itself.
app_child_exit(q) ==
  /\ fchild[q].state = "alive"
  /\ \E code \in ExitCodes :
       fchild' = [fchild EXCEPT ![q] = [state |-> "exited",
                                        returncode |-> code]]
  /\ UNCHANGED <<fpc, fparams, freply, functionVars, scanVars,
                 vars_supervisor>>

\* process.communicate(timeout=300) returns after the process has exited;
\* a nonzero returncode is answered at once.
app_communicate(q) ==
  /\ fpc[q] = "communicate"
  /\ fchild[q].state = "exited"
  /\ IF fchild[q].returncode # 0
       THEN Returned(q, "Benchmark failed with return code")
       ELSE /\ fpc' = [fpc EXCEPT ![q] = "load"]
            /\ freply' = freply
  /\ UNCHANGED <<fparams, fchild, functionVars, scanVars, vars_supervisor>>

\* process.communicate(timeout=300) raises TimeoutExpired when the process
\* is still running after 300 s: communicate does not stop the process,
\* and the except clause only builds the answer.
app_timeout(q) ==
  /\ fpc[q] = "communicate"
  /\ fchild[q].state = "alive"
  /\ Returned(q, "Benchmark execution timed out after 5 minutes")
  /\ UNCHANGED <<fparams, fchild, functionVars, scanVars, vars_supervisor>>

\* time.sleep(2); data = load_benchmark_data(): data, None, or an exception
app_load(q) ==
  /\ fpc[q] = "load"
  /\ \E reply \in {"success", "Could not load benchmark data after running",
                   "Unexpected error"} : Returned(q, reply)
  /\ UNCHANGED <<fparams, fchild, functionVars, scanVars, vars_supervisor>>

FlaskInit ==
  /\ directory = <<>>
  /\ ServiceIdle
  /\ QueriesIdle
  /\ FunctionsIdle
  /\ FlaskIdle

FlaskNext ==
  \E q \in Requests :
    \/ app_validate(q)
    \/ app_spawn(q)
    \/ app_child_exit(q)
    \/ app_communicate(q)
    \/ app_timeout(q)
    \/ app_load(q)

FlaskSpec == FlaskInit /\ [][FlaskNext]_vars

\* C30: when the run-benchmark handler of the Flask variant has returned,
\* whatever its answer, the process it spawned is no longer running.
C30_NoChildLeftRunning ==
  \A q \in Requests : fpc[q] = "returned" => fchild[q].state # "alive"

====
